---- MODULE Spec2Model ----
(***************************************************************************)
(* Model of cloud-functions/ee-tiles/main.py: the HTTP handler get_tiles   *)
(* and the lazy Earth Engine session initializer _ensure_ee.               *)
(*                                                                         *)
(* One process serves requests on a set of worker threads.  Each thread    *)
(* runs get_tiles for one request at a time; the module-level flag         *)
(* _ee_initialized is shared by all of them.  Every call into google.auth  *)
(* or the ee client either returns or raises.                              *)
(***************************************************************************)
EXTENDS Naturals, Sequences, FiniteSets

VARIABLES
    ee_initialized,   \* main.py:33  module global _ee_initialized
    threads,          \* worker threads the platform runs in this process
    served,           \* requests received by this process so far
    req,              \* per thread: the get_tiles invocation it is running
    authCalls,        \* calls of google.auth.default made so far
    initCalls,        \* calls of ee.Initialize made so far
    flagWrites        \* executions of `_ee_initialized = True` so far

vars == <<ee_initialized, threads, served, req, authCalls, initCalls, flagWrites>>

\* ----------------------------------------------------------------- bounds

\* Requests the process receives before the exploration stops.
MaxRequests == 3

\* ------------------------------------------------------------ Python values

\* Python's None, and a value that is not None.
None == <<>>
Some(v) == <<v>>

\* Truthiness of an optional string: None and '' are falsy.
Truthy(v) == v # None /\ v[1] # ""

\* ------------------------------------------------------------- input space

Slots == {1, 2}

Methods == {"GET", "POST", "OPTIONS"}

\* Values the query parameters may carry: absent, empty, a date (the end date
\* earlier than the start date), or a string that is no date at all.
StartValues == {None, Some(""), Some("2024-08-31")}
EndValues == {None, Some(""), Some("2024-06-01"), Some("yesterday")}

\* request.args for a choice of start and end (absent keys are left out).
MakeArgs(s, e) ==
    {<<"start", s[1]>> : x \in IF s = None THEN {} ELSE {1}}
        \cup {<<"end", e[1]>> : x \in IF e = None THEN {} ELSE {1}}

\* request.args.get(key): the value, or None when the key is absent.
ArgsGet(args, key) ==
    IF \E p \in args : p[1] = key
    THEN Some((CHOOSE p \in args : p[1] = key)[2])
    ELSE None

\* Argument tuples an exception raised by a library call may carry.
ExcArgs == {<<>>, <<"Quota exceeded">>}

\* URL templates the remote map-id registration may return.
TileUrls == {"https://earthengine.googleapis.com/v1/projects/p/maps/m1/tiles/{z}/{x}/{y}",
             "https://earthengine.googleapis.com/v1/projects/p/maps/m2/tiles/{z}/{x}/{y}"}

\* ---------------------------------------------------------------- handler

\* str(e) of an exception: '' with no argument, the argument itself with one.
Str(e) == IF Len(e.args) = 0 THEN "" ELSE e.args[1]

\* The exception class each call raises, and whether `except Exception` catches it.
ExcType(step) ==
    IF step = "google.auth.default" THEN "DefaultCredentialsError" ELSE "EEException"

\* Variant: the except clause names ee.EEException only.
CatchesEEExceptionOnly(e) == e.type = "EEException"

CatchesException(e) == e.type \in {"DefaultCredentialsError", "EEException"}

\* flask.jsonify of a dict, the dict given as a set of <<key, value>> members.
EmptyBody == [kind |-> "text", members |-> {}]
jsonify(d) == [kind |-> "json", members |-> d]

\* Variant: the preflight answer without its Max-Age header.
PreflightHeadersNoMaxAge ==
    { <<"Access-Control-Allow-Origin", "*">>,
      <<"Access-Control-Allow-Methods", "GET">>,
      <<"Access-Control-Allow-Headers", "Content-Type">> }

PreflightHeaders ==
    { <<"Access-Control-Allow-Origin", "*">>,
      <<"Access-Control-Allow-Methods", "GET">>,
      <<"Access-Control-Allow-Headers", "Content-Type">>,
      <<"Access-Control-Max-Age", "3600">> }

\* Variant: responses built without the cross-origin header.
cors_headers_none == {}

cors_headers == { <<"Access-Control-Allow-Origin", "*">> }

Response(body, status, headers) == [body |-> body, status |-> status, headers |-> headers]

\* Variant: the index computed per image, before the median reduce.
PipelineIndexFirst == << "ee.Geometry.Rectangle", "filterDate", "map",
                         "normalizedDifference", "median", "getMapId" >>

\* The calls of the try block after _ensure_ee(), in program order.
Pipeline == << "ee.Geometry.Rectangle", "filterDate", "map", "median",
               "normalizedDifference", "getMapId" >>

\* A thread running no request.  Besides the handler's locals a request keeps
\* the value of the flag that _ensure_ee read (seen) and the calls it has made,
\* in order (log).
Idle == [pc |-> "idle", method |-> "", args |-> {}, start |-> None, end |-> None,
         seen |-> None, map_id |-> None, exc |-> None, resp |-> None, log |-> <<>>]

Busy(r) == req[r].pc \notin {"idle", "done"}

Init ==
    /\ ee_initialized = FALSE
    /\ threads = {1}
    /\ served = 0
    /\ req = [r \in Slots |-> Idle]
    /\ authCalls = 0
    /\ initCalls = 0
    /\ flagWrites = 0

InitConcurrent ==
    /\ ee_initialized = FALSE
    /\ threads = Slots
    /\ served = 0
    /\ req = [r \in Slots |-> Idle]
    /\ authCalls = 0
    /\ initCalls = 0
    /\ flagWrites = 0

\* The platform hands a request to a free worker thread.
Receive(r) ==
    /\ r \in threads
    /\ ~Busy(r)
    /\ served < MaxRequests
    /\ \E m \in Methods, s \in StartValues, e \in EndValues :
          req' = [req EXCEPT ![r] = [Idle EXCEPT !.pc = "method", !.method = m,
                                                 !.args = MakeArgs(s, e)]]
    /\ served' = served + 1
    /\ UNCHANGED <<ee_initialized, threads, authCalls, initCalls, flagWrites>>

\* main.py:59-66
Preflight(r) ==
    /\ req[r].pc = "method"
    /\ req[r].method = "OPTIONS"
    /\ req' = [req EXCEPT ![r].pc = "done",
                          ![r].resp = Some(Response(EmptyBody, 204, PreflightHeaders))]
    /\ UNCHANGED <<ee_initialized, threads, served, authCalls, initCalls, flagWrites>>

\* Variant: only start is checked.
MissingParamsStartOnly(start, end) == ~Truthy(start)

\* Variant: end must also be an ISO date.
MissingParamsDateFormat(start, end) ==
    ~Truthy(start) \/ ~Truthy(end) \/ end[1] \notin {"2024-06-01"}

\* main.py:73
MissingParams(start, end) == ~Truthy(start) \/ ~Truthy(end)

\* main.py:68-74
Validate(r) ==
    /\ req[r].pc = "method"
    /\ req[r].method # "OPTIONS"
    /\ LET start == ArgsGet(req[r].args, "start")
           end == ArgsGet(req[r].args, "end")
       IN IF MissingParams(start, end)
          THEN req' = [req EXCEPT ![r].pc = "done", ![r].start = start, ![r].end = end,
                          ![r].resp = Some(Response(
                              jsonify({<<"error", "Missing start/end parameters">>}),
                              400, cors_headers))]
          ELSE req' = [req EXCEPT ![r].pc = "_ensure_ee", ![r].start = start,
                                  ![r].end = end]
    /\ UNCHANGED <<ee_initialized, threads, served, authCalls, initCalls, flagWrites>>

\* A call raising an exception (tb: the call it comes from): control passes to
\* the except clause if that catches the exception.
Raise(r, step, a) ==
    LET e == [type |-> ExcType(step), args |-> a, tb |-> step]
    IN req' = [req EXCEPT ![r].pc = IF CatchesException(e) THEN "except" ELSE "escaped",
                          ![r].exc = Some(e),
                          ![r].log = Append(@, step)]

\* Variant: no early return, the initialization runs on every call.
EnsureCheckAlways(r) ==
    /\ req[r].pc = "_ensure_ee"
    /\ req' = [req EXCEPT ![r].pc = "google.auth.default",
                          ![r].seen = Some(ee_initialized),
                          ![r].log = Append(@, "_ensure_ee")]
    /\ UNCHANGED <<ee_initialized, threads, served, authCalls, initCalls, flagWrites>>

\* main.py:39-40  the read of the flag
EnsureCheck(r) ==
    /\ req[r].pc = "_ensure_ee"
    /\ req' = [req EXCEPT ![r].pc = IF ee_initialized THEN Pipeline[1]
                                                       ELSE "google.auth.default",
                          ![r].seen = Some(ee_initialized),
                          ![r].log = Append(@, "_ensure_ee")]
    /\ UNCHANGED <<ee_initialized, threads, served, authCalls, initCalls, flagWrites>>

\* Variant: the flag is read a second time before the credentials are resolved.
AuthDefaultRecheck(r) ==
    /\ req[r].pc = "google.auth.default"
    /\ IF ee_initialized
       THEN /\ req' = [req EXCEPT ![r].pc = Pipeline[1]]
            /\ authCalls' = authCalls
       ELSE /\ authCalls' = authCalls + 1
            /\ \/ req' = [req EXCEPT ![r].pc = "ee.Initialize",
                                     ![r].log = Append(@, "google.auth.default")]
               \/ \E a \in ExcArgs : Raise(r, "google.auth.default", a)
    /\ UNCHANGED <<ee_initialized, threads, served, initCalls, flagWrites>>

\* Variant: the flag is set as soon as the credentials are resolved.
AuthDefaultSetsFlag(r) ==
    /\ req[r].pc = "google.auth.default"
    /\ authCalls' = authCalls + 1
    /\ \/ /\ req' = [req EXCEPT ![r].pc = "ee.Initialize",
                                ![r].log = Append(@, "google.auth.default")]
          /\ ee_initialized' = TRUE
       \/ /\ \E a \in ExcArgs : Raise(r, "google.auth.default", a)
          /\ ee_initialized' = ee_initialized
    /\ UNCHANGED <<threads, served, initCalls, flagWrites>>

\* main.py:41-43
AuthDefault(r) ==
    /\ req[r].pc = "google.auth.default"
    /\ authCalls' = authCalls + 1
    /\ \/ req' = [req EXCEPT ![r].pc = "ee.Initialize",
                             ![r].log = Append(@, "google.auth.default")]
       \/ \E a \in ExcArgs : Raise(r, "google.auth.default", a)
    /\ UNCHANGED <<ee_initialized, threads, served, initCalls, flagWrites>>

\* main.py:44
EEInitialize(r) ==
    /\ req[r].pc = "ee.Initialize"
    /\ initCalls' = initCalls + 1
    /\ \/ req' = [req EXCEPT ![r].pc = "set_flag",
                             ![r].log = Append(@, "ee.Initialize")]
       \/ \E a \in ExcArgs : Raise(r, "ee.Initialize", a)
    /\ UNCHANGED <<ee_initialized, threads, served, authCalls, flagWrites>>

\* main.py:45
SetFlag(r) ==
    /\ req[r].pc = "set_flag"
    /\ ee_initialized' = TRUE
    /\ flagWrites' = flagWrites + 1
    /\ req' = [req EXCEPT ![r].pc = Pipeline[1]]
    /\ UNCHANGED <<threads, served, authCalls, initCalls>>

\* main.py:80-91  one call of the chain returns, or raises
PipelineStep(r) ==
    /\ \E i \in 1..(Len(Pipeline) - 1) :
          /\ req[r].pc = Pipeline[i]
          /\ \/ req' = [req EXCEPT ![r].pc = Pipeline[i + 1],
                                   ![r].log = Append(@, Pipeline[i])]
             \/ \E a \in ExcArgs : Raise(r, Pipeline[i], a)
    /\ UNCHANGED <<ee_initialized, threads, served, authCalls, initCalls, flagWrites>>

\* main.py:94  the remote registration returns a map id holding the URL template
GetMapId(r) ==
    /\ req[r].pc = "getMapId"
    /\ \/ \E u \in TileUrls :
             req' = [req EXCEPT ![r].pc = "respond",
                                ![r].map_id = Some([tile_fetcher |-> [url_format |-> u]]),
                                ![r].log = Append(@, "getMapId")]
       \/ \E a \in ExcArgs : Raise(r, "getMapId", a)
    /\ UNCHANGED <<ee_initialized, threads, served, authCalls, initCalls, flagWrites>>

\* Variant: the URL of one fixed map instead of the one just registered.
TileUrlCached(map_id) ==
    "https://earthengine.googleapis.com/v1/projects/p/maps/m1/tiles/{z}/{x}/{y}"

\* main.py:95
TileUrl(map_id) == map_id.tile_fetcher.url_format

\* main.py:95-97
Respond(r) ==
    /\ req[r].pc = "respond"
    /\ LET tile_url == TileUrl(req[r].map_id[1])
       IN req' = [req EXCEPT ![r].pc = "done",
                     ![r].resp = Some(Response(jsonify({<<"tileUrl", tile_url>>}),
                                               200, cors_headers))]
    /\ UNCHANGED <<ee_initialized, threads, served, authCalls, initCalls, flagWrites>>

\* main.py:99-100
Except(r) ==
    /\ req[r].pc = "except"
    /\ LET e == req[r].exc[1]
       IN req' = [req EXCEPT ![r].pc = "done",
                     ![r].resp = Some(Response(jsonify({<<"error", Str(e)>>}),
                                               500, cors_headers))]
    /\ UNCHANGED <<ee_initialized, threads, served, authCalls, initCalls, flagWrites>>

Next ==
    \E r \in Slots :
        \/ Receive(r)
        \/ Preflight(r)
        \/ Validate(r)
        \/ EnsureCheck(r)
        \/ AuthDefault(r)
        \/ EEInitialize(r)
        \/ SetFlag(r)
        \/ PipelineStep(r)
        \/ GetMapId(r)
        \/ Respond(r)
        \/ Except(r)

\* One request at a time (the platform's assumed execution model).
Spec == Init /\ [][Next]_vars

\* Two requests may be in flight at once on a cold instance.
SpecConcurrent == InitConcurrent /\ [][Next]_vars

\* ------------------------------------------------------------- properties

Started(r) == req[r].pc # "idle"
Done(r) == req[r].pc = "done"
NonOptions(r) == Started(r) /\ req[r].method # "OPTIONS"
Present(r, key) == \E p \in req[r].args : p[1] = key
NonEmpty(r, key) == \E p \in req[r].args : p[1] = key /\ p[2] # ""
Status(r) == req[r].resp[1].status
Body(r) == req[r].resp[1].body
Headers(r) == req[r].resp[1].headers
JsonObject(members) == [kind |-> "json", members |-> members]
IsPrefix(l, s) == Len(l) <= Len(s) /\ \A i \in 1..Len(l) : l[i] = s[i]

\* C1: a non-OPTIONS request with start missing, end missing or both missing is
\* answered 400 with body {"error": "Missing start/end parameters"}, and at no
\* point of its handling has _ensure_ee or any imagery-service call run.
C1_MissingParamsRejected ==
    \A r \in Slots :
        (NonOptions(r) /\ (~Present(r, "start") \/ ~Present(r, "end"))) =>
            /\ req[r].pc \in {"method", "done"}
            /\ req[r].log = <<>>
            /\ req[r].seen = None
            /\ Done(r) =>
                  /\ Status(r) = 400
                  /\ Body(r) = JsonObject({<<"error", "Missing start/end parameters">>})

\* C1 witness: with the session already initialized, a request that has start
\* but no end has been answered 400.
C1_Witness ==
    \E r \in Slots :
        /\ ee_initialized
        /\ Done(r) /\ NonOptions(r)
        /\ Present(r, "start") /\ ~Present(r, "end")
        /\ Status(r) = 400

\* C2: an OPTIONS request, whatever its query parameters and the session state,
\* is answered 204 with an empty body and exactly the four preflight headers;
\* its parameters are never read, _ensure_ee never runs, no remote call is made.
C2_PreflightBypasses ==
    \A r \in Slots :
        (Started(r) /\ req[r].method = "OPTIONS") =>
            /\ req[r].pc \in {"method", "done"}
            /\ req[r].log = <<>>
            /\ req[r].seen = None
            /\ req[r].start = None /\ req[r].end = None
            /\ req[r].exc = None
            /\ Done(r) =>
                  /\ Status(r) = 204
                  /\ Body(r) = [kind |-> "text", members |-> {}]
                  /\ Headers(r) = { <<"Access-Control-Allow-Origin", "*">>,
                                    <<"Access-Control-Allow-Methods", "GET">>,
                                    <<"Access-Control-Allow-Headers", "Content-Type">>,
                                    <<"Access-Control-Max-Age", "3600">> }
                  /\ Cardinality(Headers(r)) = 4

\* C2 witness: an OPTIONS request without start or end has been answered 204
\* while the session was still uninitialized.
C2_Witness ==
    \E r \in Slots :
        /\ Done(r) /\ req[r].method = "OPTIONS"
        /\ ~Present(r, "start") /\ ~Present(r, "end")
        /\ ~ee_initialized
        /\ Status(r) = 204

\* C3: when a call of the processing raises, the exception never escapes the
\* handler and the response is 500 with body {error: <message of the exception>}.
C3_ExceptionsBecome500 ==
    \A r \in Slots :
        /\ req[r].pc # "escaped"
        /\ (NonOptions(r) /\ req[r].exc # None) =>
              /\ req[r].pc \in {"except", "done"}
              /\ Done(r) =>
                    /\ Status(r) = 500
                    /\ Body(r) = JsonObject({<<"error",
                          IF req[r].exc[1].args = <<>> THEN ""
                          ELSE req[r].exc[1].args[1]>>})

\* C3 witness: credential resolution raised "Quota exceeded" and the request
\* has been answered 500.
C3_Witness ==
    \E r \in Slots :
        /\ Done(r) /\ req[r].exc # None
        /\ req[r].exc[1].tb = "google.auth.default"
        /\ req[r].exc[1].args = <<"Quota exceeded">>
        /\ Status(r) = 500

\* C5: a request whose processing ran with no call raising is answered 200 with
\* body {tileUrl: u}, u being exactly the URL template the map-id registration
\* returned.
C5_TileUrlUnmodified ==
    \A r \in Slots :
        (Done(r) /\ NonOptions(r) /\ req[r].log # <<>> /\ req[r].exc = None) =>
            /\ req[r].map_id # None
            /\ Status(r) = 200
            /\ Body(r) = JsonObject({<<"tileUrl",
                                       req[r].map_id[1].tile_fetcher.url_format>>})

\* C5 witness: the registration returned the second URL template and the
\* request has been answered 200.
C5_Witness ==
    \E r \in Slots :
        /\ Done(r) /\ req[r].map_id # None
        /\ req[r].map_id[1].tile_fetcher.url_format =
              "https://earthengine.googleapis.com/v1/projects/p/maps/m2/tiles/{z}/{x}/{y}"
        /\ Status(r) = 200

\* C6: every response has a status in {204, 200, 400, 500}; a response to a
\* non-OPTIONS request has status 200, 400 or 500 and carries exactly the one
\* header Access-Control-Allow-Origin: *.
C6_StatusAndCorsHeader ==
    \A r \in Slots :
        Done(r) =>
            /\ req[r].resp # None
            /\ Status(r) \in {204, 200, 400, 500}
            /\ NonOptions(r) =>
                  /\ Status(r) \in {200, 400, 500}
                  /\ Headers(r) = { <<"Access-Control-Allow-Origin", "*">> }
                  /\ Cardinality(Headers(r)) = 1

\* C6 witness: a POST request has been answered 500.
C6_Witness ==
    \E r \in Slots :
        /\ Done(r) /\ req[r].method = "POST"
        /\ Status(r) = 500
        /\ Headers(r) = { <<"Access-Control-Allow-Origin", "*">> }

\* C7 as stated: a non-OPTIONS request in which start and end are both present,
\* whatever their values (the empty string included), is never answered 400.
C7_PresenceOnly ==
    \A r \in Slots :
        (Done(r) /\ NonOptions(r) /\ Present(r, "start") /\ Present(r, "end")) =>
            Status(r) \in {200, 500}

\* C7 amended: a non-OPTIONS request in which start and end are both present and
\* non-empty, whatever their values, is not answered 400 and proceeds to
\* processing, so its response is 200 or 500; a parameter present with the
\* empty string is treated as missing and the request is answered 400.
C7_NonEmptyOnly ==
    \A r \in Slots :
        /\ (Done(r) /\ NonOptions(r) /\ NonEmpty(r, "start") /\ NonEmpty(r, "end")) =>
              /\ req[r].log # <<>>
              /\ Status(r) \in {200, 500}
        /\ (Done(r) /\ NonOptions(r) /\ (~NonEmpty(r, "start") \/ ~NonEmpty(r, "end"))) =>
              Status(r) = 400

\* C7 witness: a request whose end is no date and lies "before" its start has
\* been processed and answered 200.
C7_Witness ==
    \E r \in Slots :
        /\ Done(r) /\ NonOptions(r)
        /\ <<"start", "2024-08-31">> \in req[r].args
        /\ <<"end", "yesterday">> \in req[r].args
        /\ Status(r) = 200

\* C4 as stated: over sequential calls of _ensure_ee, google.auth.default and
\* ee.Initialize are each called at most once in the life of the process.
C4_AtMostOnce == authCalls <= 1 /\ initCalls <= 1

\* C4 amended: over sequential calls of _ensure_ee, the initialization succeeds
\* at most once: after a call in which credential resolution and ee.Initialize
\* both succeeded (the flag is set), every later call is a no-op that resolves
\* no credentials, calls no ee.Initialize and does not write the flag again.
C4_NoOpAfterSuccess ==
    [][ /\ ee_initialized =>
              /\ ee_initialized'
              /\ authCalls' = authCalls
              /\ initCalls' = initCalls
              /\ flagWrites' = flagWrites
        /\ flagWrites' <= 1
        /\ \A r \in Slots :
              (ee_initialized /\ req[r].pc = "_ensure_ee" /\ req'[r].pc # "_ensure_ee") =>
                  /\ req'[r].pc = "ee.Geometry.Rectangle"
                  /\ req'[r].log = <<"_ensure_ee">>
      ]_vars

\* C4 witness: a second request has gone through _ensure_ee as a no-op after the
\* first one initialized the session; credentials were resolved once.
C4_Witness ==
    \E r \in Slots :
        /\ served >= 2
        /\ req[r].seen = Some(TRUE)
        /\ Len(req[r].log) >= 2
        /\ req[r].log[2] = "ee.Geometry.Rectangle"
        /\ authCalls = 1 /\ initCalls = 1 /\ flagWrites = 1

\* C8: _ensure_ee does not synchronize on the flag.  A request that read the
\* flag as false always goes on to resolve credentials, and (unless a call
\* raises) to ee.Initialize and to the write of the flag, whatever other
\* requests did in between; so with two requests in flight on a cold process
\* both can initialize (C8_Witness).
C8_NoSynchronization ==
    /\ \A r \in Slots :
          req[r].seen = Some(FALSE) =>
              /\ \/ req[r].pc = "google.auth.default"
                 \/ Len(req[r].log) >= 2 /\ req[r].log[2] = "google.auth.default"
              /\ (/\ Len(req[r].log) >= 3
                  /\ req[r].log[3] = "ee.Initialize"
                  /\ req[r].exc = None
                  /\ req[r].pc # "set_flag") => ee_initialized
    /\ authCalls >= Cardinality({r \in Slots : /\ req[r].seen = Some(FALSE)
                                              /\ req[r].pc # "google.auth.default"})
    /\ flagWrites >= Cardinality({r \in Slots : /\ req[r].seen = Some(FALSE)
                                               /\ Len(req[r].log) >= 3
                                               /\ req[r].exc = None
                                               /\ req[r].pc # "set_flag"})

\* C8 witness: the first two requests of the process both read the flag as
\* false, both resolved credentials and called ee.Initialize, and the flag has
\* been written twice.
C8_Witness ==
    /\ served = 2
    /\ \A r \in Slots :
          /\ req[r].seen = Some(FALSE)
          /\ Len(req[r].log) >= 3
          /\ req[r].log[2] = "google.auth.default"
          /\ req[r].log[3] = "ee.Initialize"
          /\ req[r].exc = None
          /\ req[r].pc # "set_flag"
    /\ authCalls = 2 /\ initCalls = 2 /\ flagWrites = 2

\* C9: the calls of one request follow the fixed order session initializer,
\* composite builder, index calculator, tile URL resolver, none of them twice;
\* the call that raises is the last one the request makes, and the request is
\* answered 500.
C9_FixedOrderNoRetry ==
    \A r \in Slots :
        LET l == req[r].log
            composite == <<"ee.Geometry.Rectangle", "filterDate", "map", "median">>
            rest == composite \o <<"normalizedDifference", "getMapId">>
        IN /\ \/ IsPrefix(l, <<"_ensure_ee">> \o rest)
              \/ IsPrefix(l, <<"_ensure_ee", "google.auth.default", "ee.Initialize">> \o rest)
           /\ req[r].exc # None =>
                 /\ l # <<>>
                 /\ l[Len(l)] = req[r].exc[1].tb
                 /\ req[r].pc \in {"except", "done"}
                 /\ req[r].map_id = None
           /\ (Done(r) /\ req[r].exc # None) => Status(r) = 500
           /\ (Done(r) /\ req[r].resp # None /\ Status(r) = 500) => req[r].exc # None

\* C9 witness: the median reduce raised; the request made no later call and has
\* been answered 500.
C9_Witness ==
    \E r \in Slots :
        /\ Done(r) /\ req[r].exc # None
        /\ req[r].exc[1].tb = "median"
        /\ req[r].log = <<"_ensure_ee", "google.auth.default", "ee.Initialize",
                          "ee.Geometry.Rectangle", "filterDate", "map", "median">>
        /\ Status(r) = 500

\* C10: the flag turns true only by the write that follows a successful
\* credential resolution and a successful ee.Initialize, and never turns false;
\* when either call raises the flag stays false, the request is answered 500,
\* and a later request that reaches _ensure_ee attempts the initialization again.
C10_FlagOnlyAfterSuccess ==
    [][ /\ ee_initialized => ee_initialized'
        /\ (~ee_initialized /\ ee_initialized') =>
              \E r \in Slots :
                  /\ req[r].pc = "set_flag"
                  /\ req[r].exc = None
                  /\ req[r].log = <<"_ensure_ee", "google.auth.default", "ee.Initialize">>
        /\ \A r \in Slots :
              /\ (/\ req[r].pc \in {"google.auth.default", "ee.Initialize"}
                  /\ req'[r].exc # None) =>
                    /\ ~ee_initialized'
                    /\ req'[r].pc = "except"
              /\ (/\ req[r].pc = "except"
                  /\ req[r].exc[1].tb \in {"google.auth.default", "ee.Initialize"}
                  /\ req'[r].pc # "except") =>
                    /\ ~ee_initialized'
                    /\ req'[r].pc = "done"
                    /\ req'[r].resp[1].status = 500
              /\ (/\ ~ee_initialized
                  /\ req[r].pc = "_ensure_ee"
                  /\ req'[r].pc # "_ensure_ee") => req'[r].pc = "google.auth.default"
      ]_vars

\* C10 witness: ee.Initialize raised for the first request, the second request
\* resolved credentials again and the flag is now set.
C10_Witness ==
    /\ served = 2
    /\ ee_initialized
    /\ authCalls = 2 /\ initCalls = 2 /\ flagWrites = 1

====
